---- MODULE Spec2Model ----
(***************************************************************************)
(* Weighted quantile summaries (summary.go): entries with rank bounds,     *)
(* construction from sorted samples, rank-preserving merge, in-place       *)
(* compression and the quantile / boundary queries.                        *)
(*                                                                         *)
(* Go slices are modelled as a reference into a heap of backing arrays     *)
(* plus a length, so that two summaries holding the same backing array     *)
(* observe each other's in-place writes.                                   *)
(*                                                                         *)
(* float64 is modelled by exact integers and rationals.  Values, weights   *)
(* and ranks are small integers, on which float64 arithmetic is exact; the *)
(* only fractions are 1/sizeHint, minEps and rank/numQuantiles, which are  *)
(* compared by cross-multiplication.  0/0 (ApproximationError of a summary *)
(* of total weight 0) is NaN, written as a rational of denominator 0.      *)
(***************************************************************************)
EXTENDS Integers, Sequences, FiniteSets, TLC

\* Bounds of the model.
MaxWeight == 1   \* sample weights are 0..MaxWeight
MaxBuf == 2      \* length of a general batch
MaxUnit == 5     \* length of a batch of unit weights
MaxHint == 3     \* sizeHint and numBoundaries are 1..MaxHint

Sums == {"a", "b"}
\* The sample values of a general batch; only their order matters.
Values == {1, 2, 3}
Weights == 0..MaxWeight
Hints == 1..MaxHint
\* Merge is explored while the operands together stay within these.
MaxMerged == MaxBuf + 2
MaxTotal == MaxBuf + 1

Max(x, y) == IF x >= y THEN x ELSE y

\* A rational num/den with den > 0; den = 0 stands for NaN.
Rat(n, d) == [num |-> n, den |-> d]
EpsSet == {Rat(0, 1), Rat(1, 1)}

----------------------------------------------------------------------------
\* Entries

SumEntry(v, w, lo, hi) == [value |-> v, weight |-> w, minRank |-> lo, maxRank |-> hi]

bufEntry(v, w) == [value |-> v, weight |-> w]

\* Variant: the entry's own weight is not taken off.
prevMaxRankWithWeight(se) == se.maxRank

prevMaxRank(se) == se.maxRank - se.weight

nextMinRank(se) == se.minRank + se.weight

\* The sorted batches the buffer hands over: one sample per value, ascending by
\* value, weights >= 0.  General batches are short; batches of unit weight on the
\* values 1..n are longer.
GeneralBuffers ==
    UNION { { bes \in [1..n -> [value : Values, weight : Weights]] :
                \A i \in 1..(n - 1) : bes[i].value < bes[i + 1].value } : n \in 0..MaxBuf }

UnitBuffers == { [i \in 1..n |-> bufEntry(i, 1)] : n \in 0..MaxUnit }

Buffers == GeneralBuffers \cup UnitBuffers

----------------------------------------------------------------------------
\* Pure parts of the operations, on entry sequences (1-based here, 0-based in Go).

RECURSIVE cumWeight(_, _)
cumWeight(bes, i) == IF i = 0 THEN 0 ELSE cumWeight(bes, i - 1) + bes[i].weight

buildFromBufferEntries(bes) ==
    [i \in 1..Len(bes) |->
        SumEntry(bes[i].value, bes[i].weight,
                 cumWeight(bes, i - 1), cumWeight(bes, i - 1) + bes[i].weight)]

\* The two-pointer loop and the two residual loops of Merge; i and j count the
\* entries already consumed, out is sum.entries[:num].
RECURSIVE MergeLoop(_, _, _, _, _, _, _)
MergeLoop(baseEntries, otherEntries, i, j, nextMinRank1, nextMinRank2, out) ==
    IF i # Len(baseEntries) /\ j # Len(otherEntries)
    THEN LET it1 == baseEntries[i + 1]
             it2 == otherEntries[j + 1]
         IN  IF it1.value < it2.value
             THEN MergeLoop(baseEntries, otherEntries, i + 1, j,
                            nextMinRank(it1), nextMinRank2,
                            Append(out, SumEntry(it1.value, it1.weight,
                                                 it1.minRank + nextMinRank2,
                                                 it1.maxRank + prevMaxRank(it2))))
             ELSE IF it1.value > it2.value
             THEN MergeLoop(baseEntries, otherEntries, i, j + 1,
                            nextMinRank1, nextMinRank(it2),
                            Append(out, SumEntry(it2.value, it2.weight,
                                                 it2.minRank + nextMinRank1,
                                                 it2.maxRank + prevMaxRank(it1))))
             ELSE MergeLoop(baseEntries, otherEntries, i + 1, j + 1,
                            nextMinRank(it1), nextMinRank(it2),
                            Append(out, SumEntry(it1.value, it1.weight + it2.weight,
                                                 it1.minRank + it2.minRank,
                                                 it1.maxRank + it2.maxRank)))
    ELSE IF i # Len(baseEntries)
    THEN LET it1 == baseEntries[i + 1]
         IN  MergeLoop(baseEntries, otherEntries, i + 1, j, nextMinRank1, nextMinRank2,
                       Append(out, SumEntry(it1.value, it1.weight,
                                            it1.minRank + nextMinRank2,
                                            it1.maxRank + otherEntries[Len(otherEntries)].maxRank)))
    ELSE IF j # Len(otherEntries)
    THEN LET it2 == otherEntries[j + 1]
         IN  MergeLoop(baseEntries, otherEntries, i, j + 1, nextMinRank1, nextMinRank2,
                       Append(out, SumEntry(it2.value, it2.weight,
                                            it2.minRank + nextMinRank1,
                                            it2.maxRank + baseEntries[Len(baseEntries)].maxRank)))
    ELSE out

MergeEntries(baseEntries, otherEntries) ==
    MergeLoop(baseEntries, otherEntries, 0, 0, 0, 0, <<>>)

TotalWeightOf(es) == IF Len(es) # 0 THEN es[Len(es)].maxRank ELSE 0

MinValueOf(es) == IF Len(es) # 0 THEN es[1].value ELSE 0

MaxValueOf(es) == IF Len(es) # 0 THEN es[Len(es)].value ELSE 0

\* maxInt64 and maxFloat64 are helpers of the package outside summary.go.
maxInt64(x, y) == IF x > y THEN x ELSE y

\* Variant: epsDelta is the total weight, without the factor max(1/sizeHint, minEps).
withinTotalWeight(gap, totalWeight, sizeHint, minEps, nanDropped) == gap <= totalWeight

\* gap <= epsDelta, where epsDelta = totalWeight * maxFloat64(1/sizeHint, minEps).
\* With minEps = NaN the helper either drops the NaN (epsDelta = totalWeight/sizeHint)
\* or propagates it (every comparison with NaN is false): nanDropped says which.
withinEpsDelta(gap, totalWeight, sizeHint, minEps, nanDropped) ==
    IF minEps.den = 0
    THEN nanDropped /\ gap * sizeHint <= totalWeight
    ELSE gap * sizeHint * minEps.den <= totalWeight * Max(minEps.den, minEps.num * sizeHint)

\* The inner loop of compress: advance ni while the budget and the rank gap allow.
\* ri, ni, wi, li are the 0-based indices of the code.
RECURSIVE scanNext(_, _, _, _, _)
scanNext(es, p, ri, ni, addAccumulator) ==
    IF /\ ni # Len(es)
       /\ addAccumulator < p.addStep
       /\ withinEpsDelta(prevMaxRank(es[ni + 1]) - nextMinRank(es[ri + 1]),
                         p.totalWeight, p.sizeHint, p.minEps, p.nanDropped)
    THEN scanNext(es, p, ri, ni + 1, addAccumulator + p.sizeHint)
    ELSE [ni |-> ni, addAccumulator |-> addAccumulator]

\* The outer loop of compress, writing in place into es.
RECURSIVE compressLoop(_, _, _, _, _, _)
compressLoop(es, p, ri, wi, li, addAccumulator) ==
    IF ri + 1 # Len(es)
    THEN LET s == scanNext(es, p, ri, ri + 1, addAccumulator)
             ri2 == IF es[ri + 1] = es[s.ni] THEN ri + 1 ELSE s.ni - 1
         IN  compressLoop([es EXCEPT ![wi + 1] = es[ri2 + 1]], p, ri2, wi + 1, ri2,
                          s.addAccumulator - p.addStep)
    ELSE [entries |-> es, wi |-> wi, li |-> li]

\* compress on the slice es: the rewritten slice elements (same length as es) and
\* the length the slice is cut to.
compress(es, sizeHint0, minEps, nanDropped) ==
    LET sizeHint == maxInt64(sizeHint0, 2)
    IN  IF Len(es) <= sizeHint
        THEN [entries |-> es, len |-> Len(es)]
        ELSE LET p == [sizeHint |-> sizeHint, minEps |-> minEps, nanDropped |-> nanDropped,
                       totalWeight |-> TotalWeightOf(es), addStep |-> Len(es)]
                 r == compressLoop(es, p, 0, 1, 1, 0)
             IN  IF r.li + 1 # Len(es)
                 THEN [entries |-> [r.entries EXCEPT ![r.wi + 1] = r.entries[Len(es)]],
                       len |-> r.wi + 1]
                 ELSE [entries |-> r.entries, len |-> r.wi]

\* maxGap of ApproximationError after the entries at 0-based indices 1..i.
RECURSIVE maxGap(_, _)
maxGap(es, i) ==
    IF i < 1 THEN 0
    ELSE LET it == es[i + 1]
             g0 == maxGap(es, i - 1)
             g1 == Max(g0, it.maxRank - it.minRank - it.weight)
         IN  Max(g1, prevMaxRank(it) - nextMinRank(es[i]))

\* maxGap / TotalWeight as a rational; 0/0 is NaN (denominator 0).
ApproximationErrorOf(es) ==
    IF Len(es) = 0 THEN Rat(0, 1) ELSE Rat(maxGap(es, Len(es) - 1), TotalWeightOf(es))

\* sum.ApproximationError() + 1.0/float64(numBoundaries)
compressionEps(es, numBoundaries) ==
    LET e == ApproximationErrorOf(es)
    IN  IF e.den = 0 THEN e
        ELSE Rat(e.num * numBoundaries + e.den, e.den * numBoundaries)

\* The inner loop of GenerateQuantiles; d2 = 2 * (rank * totalWeight / numQuantiles).
RECURSIVE advanceIdx(_, _, _, _)
advanceIdx(es, nextIdx, rank, numQuantiles) ==
    IF /\ nextIdx < Len(es)
       /\ 2 * rank * TotalWeightOf(es) >=
              (es[nextIdx + 1].minRank + es[nextIdx + 1].maxRank) * numQuantiles
    THEN advanceIdx(es, nextIdx + 1, rank, numQuantiles)
    ELSE nextIdx

\* Variant: the insertion test compares the rank itself, not the doubled rank d2.
RECURSIVE quantilesLoopUndoubled(_, _, _, _, _)
quantilesLoopUndoubled(es, numQuantiles, rank, curIdx, output) ==
    IF rank <= numQuantiles
    THEN LET nextIdx == advanceIdx(es, curIdx + 1, rank, numQuantiles)
             cur == nextIdx - 1
             v == IF \/ nextIdx = Len(es)
                     \/ rank * TotalWeightOf(es) <
                            (nextMinRank(es[cur + 1]) + prevMaxRank(es[nextIdx + 1])) * numQuantiles
                  THEN es[cur + 1].value
                  ELSE es[nextIdx + 1].value
         IN  quantilesLoopUndoubled(es, numQuantiles, rank + 1, cur,
                                    [output EXCEPT ![rank + 1] = v])
    ELSE output

RECURSIVE quantilesLoop(_, _, _, _, _)
quantilesLoop(es, numQuantiles, rank, curIdx, output) ==
    IF rank <= numQuantiles
    THEN LET nextIdx == advanceIdx(es, curIdx + 1, rank, numQuantiles)
             cur == nextIdx - 1
             v == IF \/ nextIdx = Len(es)
                     \/ 2 * rank * TotalWeightOf(es) <
                            (nextMinRank(es[cur + 1]) + prevMaxRank(es[nextIdx + 1])) * numQuantiles
                  THEN es[cur + 1].value
                  ELSE es[nextIdx + 1].value
         IN  quantilesLoop(es, numQuantiles, rank + 1, cur, [output EXCEPT ![rank + 1] = v])
    ELSE output

\* Variant: numQuantiles below 2 is not raised to 2.
GenerateQuantilesUnclamped(es, numQuantiles0) ==
    IF Len(es) = 0 THEN <<>>
    ELSE quantilesLoop(es, numQuantiles0, 0, 0, [i \in 1..(numQuantiles0 + 1) |-> 0])

GenerateQuantilesOf(es, numQuantiles0) ==
    IF Len(es) = 0 THEN <<>>
    ELSE LET numQuantiles == IF numQuantiles0 < 2 THEN 2 ELSE numQuantiles0
         IN  quantilesLoop(es, numQuantiles, 0, 0, [i \in 1..(numQuantiles + 1) |-> 0])

\* The output of GenerateBoundaries for the compressed entries ces:
\* make([]float64, len(ces)) followed by one append per entry.
boundariesOutput(ces) ==
    [i \in 1..Len(ces) |-> 0] \o [i \in 1..Len(ces) |-> ces[i].value]

----------------------------------------------------------------------------------------------------------------------------------------
\* State

VARIABLES
    heap,   \* backing array id -> the array's elements
    sums,   \* summary -> its entries slice: [arr: backing array (0: none), len]
    last,   \* the call that has just returned: operation, arguments, the entries
            \* of every summary before it, and its result ("idle": none)
    absorbed \* summary -> total weight of the samples built or merged into it

vars == <<heap, sums, last, absorbed>>

ArrayIds == 1..Cardinality(Sums)

EmptySlice == [arr |-> 0, len |-> 0]

\* sum.entries as seen through the slice.
EntriesIn(h, ss, s) == IF ss[s].arr = 0 THEN <<>> ELSE SubSeq(h[ss[s].arr], 1, ss[s].len)

Entries(s) == EntriesIn(heap, sums, s)

Size(s) == Len(Entries(s))

TotalWeight(s) == TotalWeightOf(Entries(s))

MinValue(s) == MinValueOf(Entries(s))

MaxValue(s) == MaxValueOf(Entries(s))

ApproximationError(s) == ApproximationErrorOf(Entries(s))

\* A fresh backing array for s: one no other summary holds.
NewArr(s) ==
    LET free == {id \in ArrayIds : \A t \in Sums \ {s} : sums[t].arr # id}
    IN  CHOOSE id \in free : \A other \in free : id <= other

\* Garbage collection: an array no slice refers to is dropped, and so is the part
\* of an array beyond the longest slice into it (no operation grows a slice).
Collect(h, ss) ==
    [id \in ArrayIds |->
        LET lens == {ss[t].len : t \in {u \in Sums : ss[u].arr = id}}
        IN  IF lens = {} THEN <<>>
            ELSE SubSeq(h[id], 1, CHOOSE n \in lens : \A m \in lens : m <= n)]

\* Writing es over the first Len(es) elements of array id.
WriteArr(h, id, es) ==
    [h EXCEPT ![id] = es \o SubSeq(h[id], Len(es) + 1, Len(h[id]))]

NoPre == [s \in Sums |-> <<>>]

Pre == [s \in Sums |-> Entries(s)]

Call(op, s, o, hint, eps, pre, out, again) ==
    [op |-> op, sum |-> s, other |-> o, hint |-> hint, eps |-> eps,
     pre |-> pre, out |-> out, again |-> again]

Idle == Call("idle", "a", "a", 0, Rat(0, 1), NoPre, <<>>, FALSE)

Init ==
    /\ heap = [id \in ArrayIds |-> <<>>]
    /\ sums = [s \in Sums |-> EmptySlice]
    /\ last = Idle
    /\ absorbed = [s \in Sums |-> 0]

----------------------------------------------------------------------------
\* Operations.  Calls are made one at a time: the record of a call stays in last
\* until the caller drops it (Return), or repeats a compress with the same arguments.

\* sum.buildFromBufferEntries(bes)
Build(s, bes) ==
    /\ last.op = "idle"
    /\ sums' = [sums EXCEPT ![s] =
                   IF Len(bes) = 0 THEN EmptySlice ELSE [arr |-> NewArr(s), len |-> Len(bes)]]
    /\ heap' = Collect(IF Len(bes) = 0 THEN heap
                       ELSE [heap EXCEPT ![NewArr(s)] = buildFromBufferEntries(bes)], sums')
    /\ last' = Call("build", s, s, 0, Rat(0, 1), NoPre, <<>>, FALSE)
    /\ absorbed' = [absorbed EXCEPT ![s] = cumWeight(bes, Len(bes))]

\* sum.Merge(other)
Merge(s, o) ==
    /\ last.op = "idle"
    /\ s # o
    /\ \/ Size(s) = 0
       \/ Size(o) = 0
       \/ /\ Size(s) + Size(o) <= MaxMerged
          /\ TotalWeight(s) + TotalWeight(o) <= MaxTotal
    /\ sums' = IF Size(o) = 0 THEN sums
               ELSE IF Size(s) = 0 THEN [sums EXCEPT ![s] = sums[o]]
               ELSE [sums EXCEPT ![s] =
                        [arr |-> NewArr(s), len |-> Len(MergeEntries(Entries(s), Entries(o)))]]
    /\ heap' = IF Size(o) = 0 \/ Size(s) = 0 THEN Collect(heap, sums')
               ELSE Collect([heap EXCEPT ![NewArr(s)] = MergeEntries(Entries(s), Entries(o))],
                            sums')
    /\ last' = Call("Merge", s, o, 0, Rat(0, 1), Pre, <<>>, FALSE)
    /\ absorbed' = [absorbed EXCEPT ![s] = absorbed[s] + absorbed[o]]

\* sum.compress(sizeHint, minEps)
Compress(s, sizeHint, minEps) ==
    LET c == compress(Entries(s), sizeHint, minEps, FALSE)
        again == /\ last.op = "compress" /\ last.sum = s
                 /\ last.hint = sizeHint /\ last.eps = minEps /\ ~last.again
    IN  /\ last.op = "idle" \/ again
        /\ sums' = [sums EXCEPT ![s].len = c.len]
        /\ heap' = IF sums[s].arr = 0 THEN heap
                   ELSE Collect(WriteArr(heap, sums[s].arr, c.entries), sums')
        /\ last' = Call("compress", s, s, sizeHint, minEps, Pre, <<>>, again)
        /\ UNCHANGED absorbed

\* sum.GenerateBoundaries(numBoundaries): compressedSummary takes sum.entries itself
\* (buildFromSummaryEntries keeps the slice), so compress writes into sum's array.
GenerateBoundaries(s, numBoundaries, nanDropped) ==
    LET c == compress(Entries(s), numBoundaries,
                      compressionEps(Entries(s), numBoundaries), nanDropped)
    IN  /\ last.op = "idle"
        /\ sums' = sums
        /\ heap' = IF Size(s) = 0 THEN heap
                   ELSE Collect(WriteArr(heap, sums[s].arr, c.entries), sums)
        /\ last' = Call("GenerateBoundaries", s, s, numBoundaries, Rat(0, 1), Pre,
                        IF Size(s) = 0 THEN <<>>
                        ELSE boundariesOutput(SubSeq(c.entries, 1, c.len)), FALSE)
        /\ UNCHANGED absorbed

\* sum.GenerateQuantiles(numQuantiles)
GenerateQuantiles(s, numQuantiles) ==
    /\ last.op = "idle"
    /\ UNCHANGED <<heap, sums, absorbed>>
    /\ last' = Call("GenerateQuantiles", s, s, numQuantiles, Rat(0, 1), Pre,
                    GenerateQuantilesOf(Entries(s), numQuantiles), FALSE)

\* sum.ApproximationError(); the result is <<numerator, denominator>>.
GetApproximationError(s) ==
    /\ last.op = "idle"
    /\ UNCHANGED <<heap, sums, absorbed>>
    /\ last' = Call("ApproximationError", s, s, 0, Rat(0, 1), Pre,
                    <<ApproximationError(s).num, ApproximationError(s).den>>, FALSE)

\* The caller drops the result of the last call.
Return ==
    /\ last.op # "idle"
    /\ last' = Idle
    /\ UNCHANGED <<heap, sums, absorbed>>

\* b is the summary built from each batch and a the one the batches are merged
\* into; the calls are made on a, and b is read.
Next ==
    \/ \E bes \in Buffers : Build("b", bes)
    \/ Merge("a", "b")
    \/ \E sizeHint \in Hints, minEps \in EpsSet : Compress("a", sizeHint, minEps)
    \/ \E n \in 1..(MaxUnit - 1) : GenerateQuantiles("a", n)
    \/ Return

Spec == Init /\ [][Next]_vars

\* The same with the remaining queries, GenerateBoundaries and ApproximationError.
NextBoundaries ==
    \/ \E bes \in Buffers : Build("b", bes)
    \/ Merge("a", "b")
    \/ \E sizeHint \in Hints, minEps \in EpsSet : Compress("a", sizeHint, minEps)
    \/ \E n \in Hints, nanDropped \in BOOLEAN : GenerateBoundaries("a", n, nanDropped)
    \/ \E n \in 1..(MaxUnit - 1) : GenerateQuantiles("a", n)
    \/ GetApproximationError("a")
    \/ Return

SpecBoundaries == Init /\ [][NextBoundaries]_vars

----------------------------------------------------------------------------
\* Properties

\* es is what buildFromBufferEntries gives on value-sorted samples: every rank is
\* the exact cumulative weight.
IsExact(es) ==
    /\ \A i \in 1..(Len(es) - 1) : es[i].value <= es[i + 1].value
    /\ es = buildFromBufferEntries([i \in 1..Len(es) |-> bufEntry(es[i].value, es[i].weight)])

ValuesOf(es) == [i \in 1..Len(es) |-> es[i].value]

\* ApproximationError() == 0: the float64 value 0, which NaN is not.
ErrorIsZero(es) == ApproximationErrorOf(es).num = 0 /\ ApproximationErrorOf(es).den # 0

MergedExact ==
    /\ last.op = "Merge"
    /\ IsExact(last.pre[last.sum])
    /\ IsExact(last.pre[last.other])

\* C1 as stated: merging two summaries built from sorted samples of non-negative
\* weight gives error 0 and the sum of the two total weights.
C1_MergeExact ==
    MergedExact =>
        /\ ErrorIsZero(Entries(last.sum))
        /\ TotalWeight(last.sum) =
               TotalWeightOf(last.pre[last.sum]) + TotalWeightOf(last.pre[last.other])

\* C1 amended: the same when some sample has positive weight; the total weights
\* add up in every case.
C1_MergeExactPositive ==
    MergedExact =>
        /\ TotalWeight(last.sum) =
               TotalWeightOf(last.pre[last.sum]) + TotalWeightOf(last.pre[last.other])
        /\ TotalWeight(last.sum) > 0 => ErrorIsZero(Entries(last.sum))

C1_Witness ==
    /\ MergedExact
    /\ Len(last.pre[last.sum]) >= 2
    /\ Len(last.pre[last.other]) >= 1
    /\ Size(last.sum) = Len(last.pre[last.sum]) + Len(last.pre[last.other])
    /\ Entries(last.sum)[2].value = last.pre[last.other][1].value
    /\ TotalWeight(last.sum) >= 3

\* C2: after compress(k, eps) the summary has at most max(k, 2) entries.
C2_CompressSize ==
    last.op = "compress" => Size(last.sum) <= Max(last.hint, 2)

\* The largest rank-bound gap, ApproximationError() x TotalWeight().
MaxGapOf(es) == maxGap(es, Len(es) - 1)

\* C3: compress(k, eps) raises the largest rank-bound gap by at most
\* TotalWeight x max(1/max(k,2), eps) and keeps TotalWeight.
C3_CompressError ==
    last.op = "compress" =>
        LET before == last.pre[last.sum]
            k == Max(last.hint, 2)
        IN  /\ TotalWeight(last.sum) = TotalWeightOf(before)
            /\ (MaxGapOf(Entries(last.sum)) - MaxGapOf(before)) * k * last.eps.den
                   <= TotalWeightOf(before) * Max(last.eps.den, last.eps.num * k)

C3_Witness ==
    /\ last.op = "compress"
    /\ Size(last.sum) < Len(last.pre[last.sum])
    /\ MaxGapOf(last.pre[last.sum]) > 0
    /\ MaxGapOf(Entries(last.sum)) > MaxGapOf(last.pre[last.sum])

\* C4: in every non-empty summary minRank and maxRank are non-decreasing along the
\* entries, the first minRank is 0 and the last maxRank is the weight absorbed.
C4_RankMonotone ==
    \A s \in Sums :
        Size(s) # 0 =>
            /\ \A i \in 1..(Size(s) - 1) :
                   /\ Entries(s)[i].minRank <= Entries(s)[i + 1].minRank
                   /\ Entries(s)[i].maxRank <= Entries(s)[i + 1].maxRank
            /\ Entries(s)[1].minRank = 0
            /\ TotalWeight(s) = absorbed[s]

QuantileLaws ==
    /\ Len(last.out) = Max(last.hint, 2) + 1
    /\ last.out[1] = MinValueOf(last.pre[last.sum])
    /\ last.out[Len(last.out)] = MaxValueOf(last.pre[last.sum])

C6_QueriesPure ==
    last.op \in {"GenerateBoundaries", "GenerateQuantiles", "ApproximationError"} =>
        \A s \in Sums : Entries(s) = last.pre[s]

\* C7: compress or Merge on one summary leaves the other summary's entries as
\* they were.
C7_NoSharedStorage ==
    last.op \in {"compress", "Merge"} =>
        \A s \in Sums \ {last.sum} : Entries(s) = last.pre[s]

\* C8: GenerateBoundaries(n) on a non-empty summary returns exactly the values of
\* the entries of compress(n, ApproximationError() + 1/n), in order.
C8_BoundariesExact ==
    last.op = "GenerateBoundaries" /\ Len(last.pre[last.sum]) # 0 =>
        \E nanDropped \in BOOLEAN :
            LET es == last.pre[last.sum]
                c == compress(es, last.hint, compressionEps(es, last.hint), nanDropped)
            IN  last.out = ValuesOf(SubSeq(c.entries, 1, c.len))

\* C9: a second compress(k, eps) right after the first leaves the entries as the
\* first left them.
C9_CompressIdempotent ==
    last.op = "compress" /\ last.again => Entries(last.sum) = last.pre[last.sum]

UnitSamples(es) ==
    /\ IsExact(es)
    /\ \A i \in 1..Len(es) : es[i].weight = 1
    /\ \A i \in 1..(Len(es) - 1) : es[i].value < es[i + 1].value

\* C10: on m >= 3 samples of strictly increasing value and weight 1 each,
\* GenerateQuantiles(m - 1) returns the m sample values in ascending order.
C10_ExactQuantiles ==
    /\ last.op = "GenerateQuantiles"
    /\ UnitSamples(last.pre[last.sum])
    /\ Len(last.pre[last.sum]) >= 3
    /\ last.hint = Len(last.pre[last.sum]) - 1
    => last.out = ValuesOf(last.pre[last.sum])

C10_Witness ==
    /\ last.op = "GenerateQuantiles"
    /\ UnitSamples(last.pre[last.sum])
    /\ Len(last.pre[last.sum]) = MaxUnit
    /\ last.hint = MaxUnit - 1
    /\ last.out = ValuesOf(last.pre[last.sum])

====
